---- MODULE Spec2Model ----
(***************************************************************************)
(* Model of src/lib.py (mimic3-textmining): the word2vec pipeline          *)
(* (W2VEmbedAggregate, MIMICWord2VecReadmissionPredictor) and the BERT     *)
(* pipeline (EncodedDataset, MIMICBERTReadmissionPredictor).               *)
(*                                                                         *)
(* Every method is translated as an operator that computes what the code   *)
(* computes, an exception being one of the possible results.  A behaviour  *)
(* is one call: Init draws the method, the attributes of the object it     *)
(* reads and its arguments from bounded sets (pc = "ready"), and the       *)
(* method's action runs it to its return (pc = "returned") or to the       *)
(* exception it raises (pc = "raised", exc names it).                      *)
(*                                                                         *)
(* Numbers that numpy holds as floats are exact rationals <<num, den>> in  *)
(* lowest terms, so rounding is not modelled.                              *)
(***************************************************************************)
EXTENDS Integers, Sequences, FiniteSets, TLC

VARIABLES
    call,               \* the method that is called
    pc,                 \* "ready", "returned" or "raised"
    exc,                \* the exception raised, "none" otherwise
    \* W2VEmbedAggregate.transform
    text,               \* argument: the corpus, one token list per note
    assign_to_attr,     \* argument
    X,                  \* the matrix returned
    note_level_aggregations,   \* self.note_level_aggregations
    \* MIMICWord2VecReadmissionPredictor._patient_aggregation
    train_patient_ids,  \* self.train_patient_ids
    note_vectors,       \* argument
    labels,             \* argument (None or one label per zipped row)
    agg,                \* the pair returned: [X, patient_labels]
    \* MIMICWord2VecReadmissionPredictor._load_data
    corpus,             \* the rows of corpus_fp: [SUBJECT_ID, note]
    readm_file,         \* the rows of readm_fp: [SUBJECT_ID, READM]
    load_args,          \* [chunksize, db, adapt_for_gridsearch]
    loaded,             \* the locals of _load_data when it ends
    \* EncodedDataset
    df,                 \* argument: rows [SUBJECT_ID, note, READM]
    tokenizer,          \* the BertTokenizer build: how it returns overflow
    dataset,            \* self: [input_ids, attn_masks, labels, patient_ids]
    item,               \* the dict __getitem__ returned last
    \* MIMICBERTReadmissionPredictor.setup
    text_df,            \* the table load_txt_df returns: SUBJECT_ID per note
    readm_df,           \* the label table: READM per SUBJECT_ID, NaN if absent
    val_frac,           \* self.val_frac
    train_df,           \* self.train_df
    val_df,             \* self.val_df
    dev_sample_weight,  \* self.dev_sample_weight
    stage,              \* argument of setup: 'fit' or 'test'
    test_df,            \* self.test_df
    test_sample_weight, \* self.test_sample_weight
    \* MIMICBERTReadmissionPredictor: the epoch-end hooks
    batch_size,         \* self.batch_size
    batches,           \* the batches of the epoch: per Unit, the logits
                        \* forward gives, its label and its patient
    outputs,            \* argument: the dicts the step hook returned
    write_dev_results_to,   \* self.write_dev_results_to, "unset" if absent
    epoch_out,          \* what validation_epoch_end returned
    aggregated,         \* what _aggreg_subseq_logits returned: [logits, labels]
    \* MIMICBERTReadmissionPredictor: construction and the hooks of a fit
    pl_version,         \* pl.__version__
    optimiser,          \* self.optimiser
    hooks_run           \* the hooks that were entered since construction

w2vVars == <<text, assign_to_attr, X, note_level_aggregations>>
aggVars == <<train_patient_ids, note_vectors, labels, agg>>
loadVars == <<corpus, readm_file, load_args, loaded>>
encVars == <<df, tokenizer, dataset, item>>
setupVars == <<text_df, readm_df, val_frac, train_df, val_df, dev_sample_weight,
               stage, test_df, test_sample_weight>>
hookVars == <<batch_size, batches, outputs, write_dev_results_to, epoch_out, aggregated>>
fitVars == <<pl_version, optimiser, hooks_run>>
vars == <<call, pc, exc, w2vVars, aggVars, loadVars, encVars, setupVars, hookVars, fitVars>>

(***************************************************************************)
(* Bounds                                                                  *)
(***************************************************************************)
MaxNotes == 2       \* notes in a corpus handed to transform
MaxWords == 2       \* tokens in a note
MaxUnits == 3       \* rows handed to the patient aggregator
VectorSize == 1     \* word_vectors.vector_size of the trained embedding
MaxCorpus == 2      \* rows of the corpus file _load_data reads
MaxRows == 2        \* rows of the table handed to EncodedDataset
SeqLen == 4         \* seq_len, the sequence budget L
MaxTokens == 2 * SeqLen + 1     \* tokens in a note handed to the tokenizer
MaxTextRows == 3    \* notes in the table setup loads
ValFracDen == 4     \* val_frac ranges over the multiples of 1/ValFracDen
MaxEpochUnits == 3  \* Units in an epoch

\* an optional argument: None, or Some(v)
None == [given |-> FALSE, value |-> <<>>]
Some(v) == [given |-> TRUE, value |-> v]
NoArray == <<>>

(***************************************************************************)
(* Helpers: sequences and exact rationals                                  *)
(***************************************************************************)
Min(a, b) == IF a <= b THEN a ELSE b
Abs(n) == IF n < 0 THEN -n ELSE n

RECURSIVE GCD(_, _)
GCD(a, b) == IF b = 0 THEN a ELSE GCD(b, a % b)

\* the rational n/d (d > 0) in lowest terms
Rat(n, d) == LET g == GCD(Abs(n), d) IN <<n \div g, d \div g>>
RInt(n) == <<n, 1>>
RAdd(a, b) == Rat(a[1] * b[2] + b[1] * a[2], a[2] * b[2])
RDivInt(a, k) == Rat(a[1], a[2] * k)
RLess(a, b) == a[1] * b[2] < b[1] * a[2]
RMax(a, b) == IF RLess(a, b) THEN b ELSE a
RMin(a, b) == IF RLess(b, a) THEN b ELSE a

RECURSIVE RSum(_)
RSum(s) == IF s = <<>> THEN RInt(0) ELSE RAdd(s[1], RSum(Tail(s)))
RECURSIVE RMaxSeq(_)
RMaxSeq(s) == IF Len(s) = 1 THEN s[1] ELSE RMax(s[1], RMaxSeq(Tail(s)))
RECURSIVE RMinSeq(_)
RMinSeq(s) == IF Len(s) = 1 THEN s[1] ELSE RMin(s[1], RMinSeq(Tail(s)))

\* np.mean / np.max / np.min of a non-empty 1-D array
NpMean(s) == RDivInt(RSum(s), Len(s))
NpMax(s) == RMaxSeq(s)
NpMin(s) == RMinSeq(s)

\* column k of a 2-D array held as a sequence of rows
Column(arr, k) == [r \in 1..Len(arr) |-> arr[r][k]]

SeqsUpTo(S, n) == UNION {[1..k -> S] : k \in 0..n}
Range(s) == {s[i] : i \in 1..Len(s)}

\* positions of s whose value occurs at no earlier position
FirstSeenAt(s) == {i \in 1..Len(s) : \A j \in 1..(i - 1) : s[j] # s[i]}

RECURSIVE Dedup(_)
\* list(dict.fromkeys(s)): the distinct values of s in first-seen order
Dedup(s) ==
    IF s = <<>> THEN <<>>
    ELSE LET front == Dedup(SubSeq(s, 1, Len(s) - 1))
             last == s[Len(s)]
         IN IF last \in Range(front) THEN front ELSE Append(front, last)

(***************************************************************************)
(* W2VEmbedAggregate                                                       *)
(***************************************************************************)
Vocab == {"a", "b"}             \* the words the trained embedding knows
Words == Vocab \cup {"oov"}     \* "oov" raises KeyError in word_vectors[word]

\* word_vectors[word] of the trained embedding: a vector of length vector_size
WordVector(word) ==
    [k \in 1..VectorSize |-> IF word = "a" THEN RInt(k) ELSE RInt(-2 * k)]

\* the inner loop of transform: the vectors of the words of a note that the
\* embedding resolves, the others being skipped (except KeyError: continue)
RECURSIVE NoteList(_)
NoteList(note) ==
    IF note = <<>> THEN <<>>
    ELSE IF note[1] \in Vocab
         THEN <<WordVector(note[1])>> \o NoteList(Tail(note))
         ELSE NoteList(Tail(note))

\* _concat_aggreg: np.concatenate((mean(arr, 0), max(arr, 0), min(arr, 0)))
ConcatAggreg(arr) ==
    LET dim == VectorSize IN
    [k \in 1..(3 * dim) |->
        IF k <= dim THEN NpMean(Column(arr, k))
        ELSE IF k <= 2 * dim THEN NpMax(Column(arr, k - dim))
        ELSE NpMin(Column(arr, k - 2 * dim))]

NpZeros(n) == [k \in 1..n |-> RInt(0)]

\* transform as it would be if a note without a resolved token were dropped
TransformDropsEmptyNotes(txt) ==
    LET kept == SelectSeq(txt, LAMBDA note : Len(NoteList(note)) > 0) IN
    [i \in 1..Len(kept) |-> ConcatAggreg(NoteList(kept[i]))]

\* W2VEmbedAggregate.transform: the matrix X, one row per note
Transform(txt) ==
    LET dim == VectorSize IN
    [i \in 1..Len(txt) |->
        LET note_list == NoteList(txt[i]) IN
        IF Len(note_list) = 0 THEN NpZeros(dim * 3)
        ELSE ConcatAggreg(note_list)]

(***************************************************************************)
(* MIMICWord2VecReadmissionPredictor._patient_aggregation                  *)
(***************************************************************************)
\* rows the zip at the head of the loop yields
ZipLen(ids, vecs, labs) ==
    IF ~labs.given THEN Min(Len(ids), Len(vecs))
    ELSE Min(Min(Len(ids), Len(vecs)), Len(labs.value))

\* patient_to_nv_map after the loop, as the list of its keys in insertion
\* order and the array held for each key: a patient met once holds the 1-D
\* vector itself, a patient met again holds the np.vstack of its vectors
PatientKeys(ids, n) == Dedup(SubSeq(ids, 1, n))

RowsOf(ids, vecs, n, p) ==
    LET at == {i \in 1..n : ids[i] = p}
        F[k \in 0..n] ==
            IF k = 0 THEN <<>>
            ELSE IF k \in at THEN Append(F[k - 1], vecs[k]) ELSE F[k - 1]
    IN F[n]

PatientArray(ids, vecs, n, p) ==
    LET rows == RowsOf(ids, vecs, n, p) IN
    IF Len(rows) = 1 THEN [ndim |-> 1, data |-> rows[1]]
    ELSE [ndim |-> 2, data |-> rows]

\* np.mean(array, 0): a scalar for a 1-D array, the column means for a 2-D one
NpMeanAxis0(array) ==
    IF array.ndim = 1 THEN [ndim |-> 0, data |-> NpMean(array.data)]
    ELSE [ndim |-> 1,
          data |-> [k \in 1..Len(array.data[1]) |-> NpMean(Column(array.data, k))]]

\* X[i,:] = value for a row of the given width: numpy broadcasts a scalar or a
\* length-1 vector, copies a vector of the same width and raises ValueError
\* for any other shape
CanAssignRow(value, width) ==
    \/ value.ndim = 0
    \/ value.ndim = 1 /\ Len(value.data) \in {1, width}

AssignRow(value, width) ==
    IF value.ndim = 0 THEN [k \in 1..width |-> value.data]
    ELSE IF Len(value.data) = width THEN value.data
    ELSE [k \in 1..width |-> value.data[1]]

\* labels of the rows at which a patient is first seen (patient_labels)
PatientLabels(ids, labs, n) ==
    IF ~labs.given THEN <<>>
    ELSE LET F[k \in 0..n] ==
                IF k = 0 THEN <<>>
                ELSE IF k \in FirstSeenAt(SubSeq(ids, 1, n))
                     THEN Append(F[k - 1], labs.value[k]) ELSE F[k - 1]
         IN F[n]

\* _patient_aggregation(note_vectors, labels): the pair returned, or the
\* exception the fill loop raises at the first row it cannot assign
PatientAggregation(ids, vecs, labs) ==
    LET dim == VectorSize
        n == ZipLen(ids, vecs, labs)
        keys == PatientKeys(ids, n)
        means == [i \in 1..Len(keys) |->
                     NpMeanAxis0(PatientArray(ids, vecs, n, keys[i]))]
    IN IF \E i \in 1..Len(keys) : ~CanAssignRow(means[i], dim)
       THEN [exc |-> "ValueError", X |-> NoArray, patient_labels |-> <<>>]
       ELSE [exc |-> "none",
             X |-> [i \in 1..Len(keys) |-> AssignRow(means[i], dim)],
             patient_labels |-> PatientLabels(ids, labs, n)]

(***************************************************************************)
(* MIMICWord2VecReadmissionPredictor._load_data                            *)
(***************************************************************************)
\* the index of the first occurrence of x in s: list.index(x)
RECURSIVE IndexIn(_, _)
IndexIn(s, x) == IF s[1] = x THEN 1 ELSE 1 + IndexIn(Tail(s), x)

\* the rows of the corpus the loop over the chunks visits: all of them, or
\* those of the first chunk when self.db is set
RowsRead(rows, chunksize, db) ==
    IF db THEN SubSeq(rows, 1, Min(chunksize, Len(rows))) ELSE rows

\* chunk[chunk.index.isin(readm_df.index)], over the chunks read
LabelledRows(rows, readm_rows) ==
    SelectSeq(rows, LAMBDA row :
        row.SUBJECT_ID \in {readm_rows[j].SUBJECT_ID : j \in 1..Len(readm_rows)})

\* readm_df[readm_df.index.isin(patient_ids)]
ReadmOfLoaded(readm_rows, patient_ids) ==
    SelectSeq(readm_rows, LAMBDA row : row.SUBJECT_ID \in Range(patient_ids))

\* readm_ordering_map: a later row of a patient replaces an earlier one
ReadmOrderingMap(readm_rows) ==
    [p \in {readm_rows[j].SUBJECT_ID : j \in 1..Len(readm_rows)} |->
        LET last == CHOOSE j \in 1..Len(readm_rows) :
                        /\ readm_rows[j].SUBJECT_ID = p
                        /\ \A k \in (j + 1)..Len(readm_rows) : readm_rows[k].SUBJECT_ID # p
        IN readm_rows[last].READM]

\* _load_data up to its return statement, and the statement itself:
\* tuple() takes one argument, so tuple(np.array(patient_ids), text, ...)
\* raises TypeError and nothing is returned
LoadData(rows, readm_rows, args) ==
    LET read == LabelledRows(RowsRead(rows, args.chunksize, args.db), readm_rows)
        patient_ids == [i \in 1..Len(read) |-> read[i].SUBJECT_ID]
        tokenized == [i \in 1..Len(read) |-> read[i].note]
        kept_readm == ReadmOfLoaded(readm_rows, patient_ids)
        index == [j \in 1..Len(kept_readm) |-> kept_readm[j].SUBJECT_ID]
        input_labels == [j \in 1..Len(kept_readm) |-> kept_readm[j].READM]
        ordering == ReadmOrderingMap(kept_readm)
        ids == Dedup(patient_ids)
    IN [exc |-> "TypeError",
        patient_ids |-> patient_ids,
        text |-> tokenized,
        unique_id_list |-> ids,
        labels |-> [i \in 1..Len(ids) |-> input_labels[IndexIn(index, ids[i])]],
        gridsearch_labels |->
            IF args.adapt_for_gridsearch
            THEN [i \in 1..Len(patient_ids) |-> ordering[patient_ids[i]]]
            ELSE <<>>]

(***************************************************************************)
(* MIMICWord2VecReadmissionPredictor.test                                  *)
(***************************************************************************)
TestChunkSize == 1000   \* _load_test_data: chunksize=1e3

\* test(corpus_fp, readm_fp) up to the aggregation: _load_test_data, whose
\* exception ends the call, then _patient_aggregation over the note vectors
\* of the test text, which zips them with self.train_patient_ids
Test(train_ids, rows, readm_rows, db) ==
    LET load == LoadData(rows, readm_rows,
                         [chunksize |-> TestChunkSize, db |-> db,
                          adapt_for_gridsearch |-> FALSE])
    IN IF load.exc # "none"
       THEN [exc |-> load.exc, X |-> NoArray, patient_labels |-> <<>>]
       ELSE PatientAggregation(train_ids, Transform(load.text), Some(load.labels))

(***************************************************************************)
(* EncodedDataset                                                          *)
(***************************************************************************)
\* A note of n tokens is the token list <<1, ..., n>>; the special tokens
\* and the padding are the ids below.
CLS == -1
SEP == -2
PAD == 0
NumSpecialTokens == 2   \* add_special_tokens=True: [CLS] and [SEP]

CeilDiv(a, b) == (a + b - 1) \div b
Max(a, b) == IF a >= b THEN a ELSE b
Ones(n) == [k \in 1..n |-> 1]
Zeros(n) == [k \in 1..n |-> 0]
Tokens(lo, hi) == [k \in 1..(hi - lo + 1) |-> lo + k - 1]

\* The tokenizer is a collaborator outside this file and its release is not
\* pinned.  Releases serve return_overflowing_tokens in one of two ways:
\*   - the key 'overflowing_tokens' is present only when something was
\*     truncated and holds a Python list of the overflowing ids;
\*   - the key is always present and return_tensors='pt' applies to it too,
\*     so that it holds a tensor of shape (1, number of overflowing ids).
\* The overflowing ids are taken to follow the kept ones in note order.
TokenizerBuilds ==
    {[repr |-> "list", always_key |-> FALSE], [repr |-> "tensor", always_key |-> TRUE]}

\* tokenizer.encode_plus(note, add_special_tokens=True, truncation=True,
\* max_length=seq_len, pad_to_max_length=True, return_attention_mask=True,
\* return_overflowing_tokens=True) for a note of n tokens
EncodePlus(n, build) ==
    LET kept == Min(n, SeqLen - NumSpecialTokens)
        used == kept + NumSpecialTokens
        n_over == n - kept
    IN [input_ids |-> <<CLS>> \o Tokens(1, kept) \o <<SEP>>
                        \o [k \in 1..(SeqLen - used) |-> PAD],
        attention_mask |-> Ones(used) \o Zeros(SeqLen - used),
        has_overflowing_tokens |-> build.always_key \/ n_over > 0,
        overflowing_tokens |-> [repr |-> build.repr, ids |-> Tokens(kept + 1, n)]]

\* len(overflow): the length of a list, the first dimension of a tensor
PyLen(overflow) == IF overflow.repr = "list" THEN Len(overflow.ids) ELSE 1

\* the lists as they stand when the loop stops: exc is "none" or the exception
EmptyLists ==
    [exc |-> "none", input_ids |-> <<>>, attn_masks |-> <<>>,
     labels |-> <<>>, patient_ids |-> <<>>]

\* the pass as it would be if only the label were duplicated for the chunk
OverflowUnitWithoutPatient(acc, overflow, patient, label, i) ==
    LET a == [acc EXCEPT !.labels = Append(@, label)] IN
    IF overflow.repr = "list" THEN [a EXCEPT !.exc = "AttributeError"]
    ELSE IF Len(overflow.ids) = SeqLen
         THEN [a EXCEPT !.input_ids = Append(@, overflow.ids),
                        !.attn_masks = Append(@, Ones(SeqLen))]
         ELSE [a EXCEPT !.exc = "RuntimeError"]

\* one pass of the loop over the overflow (lines 343-359), i counted from 0
OverflowUnit(acc, overflow, patient, label, i) ==
    LET a == [acc EXCEPT !.patient_ids = Append(@, patient),
                         !.labels = Append(@, label)] IN
    IF overflow.repr = "list"
    THEN \* overflow[seq_len*i:seq_len*(i+1)] is a list: it has no .shape
         [a EXCEPT !.exc = "AttributeError"]
    ELSE \* the slice runs over the first dimension, which has the one row;
         \* .shape[1] is the number of overflowing ids
         LET overflow_seq_len == Len(overflow.ids) IN
         IF overflow_seq_len = SeqLen
         THEN [a EXCEPT !.input_ids = Append(@, overflow.ids),
                        !.attn_masks = Append(@, Ones(SeqLen))]
         ELSE \* torch.cat of a 2-D and a 1-D tensor, or torch.zeros of a
              \* negative size
              [a EXCEPT !.exc = "RuntimeError"]

OverflowLoop(acc, overflow, patient, label) ==
    LET iters == CeilDiv(PyLen(overflow), SeqLen)
        G[i \in 0..iters] ==
            IF i = 0 THEN acc
            ELSE IF G[i - 1].exc # "none" THEN G[i - 1]
            ELSE OverflowUnit(G[i - 1], overflow, patient, label, i - 1)
    IN G[iters]

\* the body of the loop over the rows of df (lines 322-359)
EncodeRow(acc, row, build) ==
    LET encoding == EncodePlus(row.note, build)
        a == [acc EXCEPT !.input_ids = Append(@, encoding.input_ids),
                         !.attn_masks = Append(@, encoding.attention_mask),
                         !.patient_ids = Append(@, row.SUBJECT_ID),
                         !.labels = Append(@, row.READM)]
    IN IF encoding.has_overflowing_tokens
       THEN OverflowLoop(a, encoding.overflowing_tokens, row.SUBJECT_ID, row.READM)
       ELSE a

\* EncodedDataset.__init__: the four lists, or the exception that ends it
EncodedDatasetInit(rows, build) ==
    LET F[r \in 0..Len(rows)] ==
            IF r = 0 THEN EmptyLists
            ELSE IF F[r - 1].exc # "none" THEN F[r - 1]
            ELSE EncodeRow(F[r - 1], rows[r], build)
    IN F[Len(rows)]

\* EncodedDataset.__len__
DatasetLen(ds) == Len(ds.patient_ids)

\* EncodedDataset.__getitem__
GetItem(ds, idx) ==
    [input_ids |-> ds.input_ids[idx], attn_masks |-> ds.attn_masks[idx],
     labels |-> ds.labels[idx], patient_ids |-> ds.patient_ids[idx]]

(***************************************************************************)
(* MIMICBERTReadmissionPredictor.setup                                     *)
(***************************************************************************)
NaN == -1       \* the READM a left merge gives a note without a label row

\* the merge as it would be if a note without a label row were given label 0
MergeDefaultingLabel(txt, readm) ==
    [i \in 1..Len(txt) |->
        [idx |-> i, SUBJECT_ID |-> txt[i],
         READM |-> IF readm[txt[i]] = NaN THEN 0 ELSE readm[txt[i]]]]

\* text_df.merge(read_csv(rfp, index_col=0), on='SUBJECT_ID', how='left'):
\* every note keeps its index and gets the READM of its patient, or NaN
Merge(txt, readm) ==
    [i \in 1..Len(txt) |->
        [idx |-> i, SUBJECT_ID |-> txt[i], READM |-> readm[txt[i]]]]

\* the READM column holds floats as soon as one value is NaN
IsFloatColumn(labelled_text) ==
    \E i \in 1..Len(labelled_text) : labelled_text[i].READM = NaN

\* labelled_text.SUBJECT_ID.drop_duplicates().tolist()
AllPatients(labelled_text) ==
    Dedup([i \in 1..Len(labelled_text) |-> labelled_text[i].SUBJECT_ID])

\* int(len(all_patients) * self.val_frac), val_frac = <<num, den>> >= 0
NValPatients(all_patients, frac) == (Len(all_patients) * frac[1]) \div frac[2]

\* random.sample(population, k): the sets of k distinct members it can draw;
\* it raises ValueError when k exceeds the population
Samples(population, k) ==
    {S \in SUBSET Range(population) : Cardinality(S) = k}

\* labelled_text[labelled_text.SUBJECT_ID.isin(val_patients)]
\* as it would be if only the first note of a sampled patient were taken
ValDfFirstNoteOnly(labelled_text, val_patients) ==
    SelectSeq(labelled_text,
              LAMBDA row : /\ row.SUBJECT_ID \in val_patients
                           /\ \A j \in 1..(row.idx - 1) :
                                  labelled_text[j].SUBJECT_ID # row.SUBJECT_ID)

\* labelled_text[labelled_text.SUBJECT_ID.isin(val_patients)]
ValDf(labelled_text, val_patients) ==
    SelectSeq(labelled_text, LAMBDA row : row.SUBJECT_ID \in val_patients)

\* labelled_text[~labelled_text.SUBJECT_ID.isin(val_df.SUBJECT_ID)]
TrainDf(labelled_text, val) ==
    SelectSeq(labelled_text,
              LAMBDA row : row.SUBJECT_ID \notin {val[j].SUBJECT_ID : j \in 1..Len(val)})

\* _make_sample_weights(y) for integer labels y: len(y) / (number of classes
\* present * occurrences of the sample's class), per sample
MakeSampleWeights(y) ==
    LET classes == Range(y)
        count(c) == Cardinality({j \in 1..Len(y) : y[j] = c})
    IN [j \in 1..Len(y) |-> Rat(Len(y), Cardinality(classes) * count(y[j]))]

\* what np.bincount(y) does in _make_sample_weights: y has the dtype of the
\* READM column whatever rows it holds, and an array of floats is refused
\* by the safe cast to integers (TypeError), an empty one included
BincountOutcomes(labelled_text, rows) ==
    IF IsFloatColumn(labelled_text) THEN {"TypeError"} ELSE {"none"}

ReadmOf(rows) == [j \in 1..Len(rows) |-> rows[j].READM]

(***************************************************************************)
(* MIMICBERTReadmissionPredictor: construction and configure_optimizers    *)
(***************************************************************************)
\* parse_version(a) < parse_version(b) for releases <<major, minor, patch>>
ParseVersionLess(a, b) ==
    \/ a[1] < b[1]
    \/ a[1] = b[1] /\ a[2] < b[2]
    \/ a[1] = b[1] /\ a[2] = b[2] /\ a[3] < b[3]

\* configure_optimizers: 'sgd' returns the optimizer and its schedule; 'adam'
\* reads self.lr, which __init__ never sets (lr is not one of params and
\* save_hyperparameters stores it in self.hparams); any other name raises
ConfigureOptimizers(name) ==
    IF name = "sgd" THEN "none"
    ELSE IF name = "adam" THEN "AttributeError"
    ELSE "NameError"

(***************************************************************************)
(* MIMICBERTReadmissionPredictor: validation and test hooks                *)
(***************************************************************************)
ScaleFactor == 2        \* self.proba_aggregation_scale_factor = 2.0
NumClasses == 2         \* columns of the logits

RMul(a, b) == Rat(a[1] * b[1], a[2] * b[2])
\* a / b for b > 0
RDiv(a, b) == Rat(a[1] * b[2], a[2] * b[1])

\* logits.argmax(-1) of one row: the first index of the largest logit
ArgMax(logits) ==
    CHOOSE j \in 1..Len(logits) :
        /\ \A k \in 1..Len(logits) : logits[k] <= logits[j]
        /\ \A k \in 1..(j - 1) : logits[k] < logits[j]

\* self.loss(logits, labels), reduction='none': a per-Unit loss, here 0 when
\* the largest logit is the label's and 1 otherwise
Loss(batch) ==
    [u \in 1..Len(batch) |-> IF ArgMax(batch[u].logits) - 1 = batch[u].label THEN 0 ELSE 1]

\* validation_step: {'loss', 'predictions', 'labels'} of a batch
ValidationStep(batch) ==
    [keys |-> {"loss", "predictions", "labels"},
     loss |-> Loss(batch),
     predictions |-> [u \in 1..Len(batch) |-> ArgMax(batch[u].logits) - 1],
     labels |-> [u \in 1..Len(batch) |-> batch[u].label]]

\* test_step: {'loss', 'logits', 'labels', 'log'} of a batch
TestStep(batch) ==
    [keys |-> {"loss", "logits", "labels", "log"},
     loss |-> Loss(batch),
     logits |-> [u \in 1..Len(batch) |-> batch[u].logits],
     labels |-> [u \in 1..Len(batch) |-> batch[u].label]]

\* a test_step result to which the patient IDs of the batch have been added
TestStepWithPatientIds(batch) ==
    [keys |-> {"loss", "logits", "labels", "log", "patient_ids"},
     loss |-> Loss(batch),
     logits |-> [u \in 1..Len(batch) |-> batch[u].logits],
     labels |-> [u \in 1..Len(batch) |-> batch[u].label],
     patient_ids |-> [u \in 1..Len(batch) |-> batch[u].patient]]

RECURSIVE Flatten(_)
\* torch.cat of a list of 1-D tensors
Flatten(ss) == IF ss = <<>> THEN <<>> ELSE ss[1] \o Flatten(Tail(ss))

RECURSIVE Sum(_)
Sum(s) == IF s = <<>> THEN 0 ELSE s[1] + Sum(Tail(s))

\* the metrics of the epoch; Accuracy stands for the five of self.metrics,
\* each a function of (predictions, labels)
Metrics(predictions, labs) ==
    [acc |-> Rat(Cardinality({u \in 1..Len(labs) : predictions[u] = labs[u]}),
                 Len(labs))]

NoAggregated == [logits |-> <<>>, labels |-> <<>>]
NoOut == [loss |-> <<>>, metrics |-> [acc |-> <<0, 1>>], written |-> FALSE]

\* validation_epoch_end(outputs)
ValidationEpochEnd(outs, write_to) ==
    IF outs = <<>>
    THEN \* torch.cat of an empty list
         [exc |-> "RuntimeError", out |-> NoOut]
    ELSE LET loss == Flatten([b \in 1..Len(outs) |-> outs[b].loss])
             predictions == Flatten([b \in 1..Len(outs) |-> outs[b].predictions])
             labs == Flatten([b \in 1..Len(outs) |-> outs[b].labels])
         IN IF Sum(labs) \in {Len(labs), 0}
            THEN \* raise RuntimeWarning('val labels all the same, ...')
                 [exc |-> "RuntimeWarning", out |-> NoOut]
            ELSE IF write_to = "unset"
            THEN \* the attribute has no default in __init__
                 [exc |-> "AttributeError", out |-> NoOut]
            ELSE [exc |-> "none",
                  out |-> [loss |-> loss, metrics |-> Metrics(predictions, labs),
                           written |-> write_to # "None"]]

\* _scale(logits) of _aggreg_subseq_logits, for the scores of one patient in
\* one class column
Scale(logits) ==
    LET factor == Rat(Len(logits), ScaleFactor) IN
    RDiv(RAdd(NpMax(logits), RMul(NpMean(logits), factor)),
         RAdd(RInt(1), factor))

\* _aggreg_subseq_logits(output_list): the first statement reads
\* o['patient_ids'] of every dict (KeyError on what test_step returns); the
\* loop header then reads logits.shape of what is a Python list
AggregSubseqLogits(output_list) ==
    IF \E b \in 1..Len(output_list) : "patient_ids" \notin output_list[b].keys
    THEN "KeyError"
    ELSE "AttributeError"

\* test_epoch_end(outputs)
TestEpochEnd(outs) ==
    IF outs = <<>>
    THEN "RuntimeError"     \* torch.cat of an empty list
    ELSE AggregSubseqLogits(outs)

(***************************************************************************)
(* Inputs                                                                  *)
(***************************************************************************)
Patients == {"p1", "p2"}
Labels == {0, 1}

Notes == SeqsUpTo(Words, MaxWords)
Texts == SeqsUpTo(Notes, MaxNotes)

\* the note-level rows the aggregator is given are rows transform produces
UnitNotes == {<<"a">>, <<"a", "b">>}
UnitVectors ==
    {NpZeros(3 * VectorSize)} \cup {ConcatAggreg(NoteList(note)) : note \in UnitNotes}

W2VIdle ==
    /\ text = <<>> /\ assign_to_attr = FALSE
    /\ X = NoArray /\ note_level_aggregations = NoArray

AggIdle ==
    /\ train_patient_ids = <<>> /\ note_vectors = <<>> /\ labels = None
    /\ agg = [X |-> NoArray, patient_labels |-> <<>>]

NoDataset ==
    [input_ids |-> <<>>, attn_masks |-> <<>>, labels |-> <<>>, patient_ids |-> <<>>]
NoItem == [input_ids |-> <<>>, attn_masks |-> <<>>, labels |-> 0, patient_ids |-> ""]

EncIdle ==
    /\ df = <<>> /\ tokenizer = [repr |-> "list", always_key |-> FALSE]
    /\ dataset = NoDataset /\ item = NoItem

\* READM is a fact of the patient, which the merge copies onto its notes
ReadmOfPatient(p) == IF p = "p1" THEN 0 ELSE 1

\* the table a dataset is built from
Tables ==
    {[i \in 1..Len(t) |->
        [SUBJECT_ID |-> t[i][1], note |-> t[i][2], READM |-> ReadmOfPatient(t[i][1])]]
     : t \in SeqsUpTo(Patients \X (0..MaxTokens), MaxRows)}

NotLoaded ==
    [patient_ids |-> <<>>, text |-> <<>>, unique_id_list |-> <<>>,
     labels |-> <<>>, gridsearch_labels |-> <<>>]

LoadIdle ==
    /\ corpus = <<>> /\ readm_file = <<>>
    /\ load_args = [chunksize |-> 1, db |-> FALSE, adapt_for_gridsearch |-> FALSE]
    /\ loaded = NotLoaded

HookIdle ==
    /\ batch_size = 1 /\ batches = <<>> /\ outputs = <<>> /\ write_dev_results_to = "unset"
    /\ epoch_out = NoOut /\ aggregated = NoAggregated

SetupIdle ==
    /\ text_df = <<>> /\ readm_df = [p \in {} |-> 0] /\ val_frac = <<0, 1>>
    /\ train_df = <<>> /\ val_df = <<>> /\ dev_sample_weight = <<>>
    /\ stage = "fit" /\ test_df = <<>> /\ test_sample_weight = <<>>

FitIdle ==
    /\ pl_version = <<0, 8, 1>> /\ optimiser = "sgd" /\ hooks_run = {}

\* the variables of every part of the program but the one called are idle
IdleExcept(part) ==
    /\ IF part = "fit" THEN TRUE ELSE FitIdle
    /\ IF part = "w2v" THEN TRUE ELSE W2VIdle
    /\ IF part = "agg" THEN TRUE ELSE AggIdle
    /\ IF part = "load" THEN TRUE ELSE LoadIdle
    /\ IF part = "enc" THEN TRUE ELSE EncIdle
    /\ IF part = "setup" THEN TRUE ELSE SetupIdle
    /\ IF part = "hook" THEN TRUE ELSE HookIdle

\* a label table: at most one row per patient, in any order
ReadmTables ==
    {t \in SeqsUpTo([SUBJECT_ID : Patients, READM : Labels], Cardinality(Patients)) :
        \A i, j \in 1..Len(t) : i # j => t[i].SUBJECT_ID # t[j].SUBJECT_ID}

InitLoadData ==
    /\ call = "_load_data"
    /\ corpus \in SeqsUpTo([SUBJECT_ID : Patients, note : {<<>>, <<"a">>}], MaxCorpus)
    /\ readm_file \in ReadmTables
    /\ load_args \in [chunksize : {1, MaxCorpus}, db : BOOLEAN,
                       adapt_for_gridsearch : BOOLEAN]
    /\ loaded = NotLoaded
    /\ IdleExcept("load")

SetupPatients == {"p1", "p2", "p3"}

InitSetup ==
    /\ call = "setup"
    /\ text_df \in SeqsUpTo(SetupPatients, MaxTextRows)
    /\ readm_df \in [SetupPatients -> Labels \cup {NaN}]
    /\ val_frac \in {<<k, ValFracDen>> : k \in 0..(ValFracDen + 1)}
    /\ stage \in {"fit", "test"}
    /\ stage = "test" => val_frac = <<1, ValFracDen>>
    /\ train_df = <<>> /\ val_df = <<>> /\ dev_sample_weight = <<>>
    /\ test_df = <<>> /\ test_sample_weight = <<>>
    /\ IdleExcept("setup")

\* the logits forward gives for a Unit
LogitVectors == {<<0, 1>>, <<1, 0>>, <<2, 0>>}
\* a Unit of a batch
UnitSamples ==
    {[logits |-> l, patient |-> p, label |-> ReadmOfPatient(p)]
        : l \in LogitVectors, p \in Patients}

\* the batches a DataLoader with a sequential sampler cuts the Units into:
\* consecutive runs of batch_size Units, the last one possibly shorter
DataLoader(units, size) ==
    [b \in 1..CeilDiv(Len(units), size) |->
        SubSeq(units, size * (b - 1) + 1, Min(Len(units), size * b))]

\* the epochs: every list of Units under every batch size
InitEpoch ==
    /\ batch_size \in 1..MaxEpochUnits
    /\ \E units \in SeqsUpTo(UnitSamples, MaxEpochUnits) :
           batches = DataLoader(units, batch_size)

InitValidationEpochEnd ==
    /\ call = "validation_epoch_end"
    /\ InitEpoch
    /\ outputs = [b \in 1..Len(batches) |-> ValidationStep(batches[b])]
    /\ write_dev_results_to \in {"unset", "None", "dev.log"}
    /\ epoch_out = NoOut /\ aggregated = NoAggregated
    /\ IdleExcept("hook")

InitTestEpochEnd ==
    /\ call = "test_epoch_end"
    /\ InitEpoch
    /\ outputs = [b \in 1..Len(batches) |-> TestStep(batches[b])]
    /\ write_dev_results_to = "unset"
    /\ epoch_out = NoOut /\ aggregated = NoAggregated
    /\ IdleExcept("hook")

\* a direct call, with dicts that do carry the patient IDs
InitAggregSubseqLogits ==
    /\ call = "_aggreg_subseq_logits"
    /\ InitEpoch
    /\ outputs = [b \in 1..Len(batches) |-> TestStepWithPatientIds(batches[b])]
    /\ write_dev_results_to = "unset"
    /\ epoch_out = NoOut /\ aggregated = NoAggregated
    /\ IdleExcept("hook")

\* the releases of pytorch_lightning around the one __init__ requires
PLVersions == {<<0, 7, 6>>, <<0, 8, 0>>, <<0, 8, 1>>, <<0, 9, 0>>}
\* the names given as optimiser
Optimisers == {"sgd", "adam", "rmsprop"}

\* a predictor is constructed and the hooks of a fit are called on it
InitFit ==
    /\ call = "fit"
    /\ pl_version \in PLVersions
    /\ optimiser \in Optimisers
    /\ hooks_run = {}
    /\ text_df \in [1..2 -> Patients]
    /\ readm_df \in {r \in [SetupPatients -> Labels \cup {NaN}] : r["p3"] = 0}
    /\ val_frac = <<ValFracDen \div 2, ValFracDen>>
    /\ train_df = <<>> /\ val_df = <<>> /\ dev_sample_weight = <<>>
    /\ stage = "fit" /\ test_df = <<>> /\ test_sample_weight = <<>>
    /\ W2VIdle /\ AggIdle /\ LoadIdle /\ EncIdle /\ HookIdle

InitEncodedDataset ==
    /\ call = "EncodedDataset"
    /\ df \in Tables
    /\ tokenizer \in TokenizerBuilds
    /\ dataset = NoDataset /\ item = NoItem
    /\ IdleExcept("enc")

\* test() is called on a predictor that holds the patient IDs of its
\* training corpus
InitTest ==
    /\ call = "test"
    /\ train_patient_ids \in SeqsUpTo(Patients, MaxCorpus)
    /\ corpus \in SeqsUpTo([SUBJECT_ID : Patients, note : {<<>>, <<"a">>}], MaxCorpus)
    /\ readm_file \in ReadmTables
    /\ load_args \in [chunksize : {TestChunkSize}, db : BOOLEAN,
                       adapt_for_gridsearch : {FALSE}]
    /\ loaded = NotLoaded
    /\ note_vectors = <<>> /\ labels = None
    /\ agg = [X |-> NoArray, patient_labels |-> <<>>]
    /\ W2VIdle /\ EncIdle /\ SetupIdle /\ HookIdle /\ FitIdle

InitTransform ==
    /\ call = "transform"
    /\ text \in Texts
    /\ assign_to_attr \in BOOLEAN
    /\ X = NoArray /\ note_level_aggregations = NoArray
    /\ IdleExcept("w2v")

InitPatientAggregation ==
    /\ call = "_patient_aggregation"
    /\ train_patient_ids \in SeqsUpTo(Patients, MaxUnits)
    /\ note_vectors \in SeqsUpTo(UnitVectors, MaxUnits)
    /\ labels \in {None} \cup {Some(l) : l \in [1..Len(note_vectors) -> Labels]}
    /\ agg = [X |-> NoArray, patient_labels |-> <<>>]
    /\ IdleExcept("agg")

Init ==
    /\ pc = "ready" /\ exc = "none"
    /\ \/ InitTransform
       \/ InitPatientAggregation
       \/ InitLoadData
       \/ InitEncodedDataset
       \/ InitSetup
       \/ InitValidationEpochEnd
       \/ InitTestEpochEnd
       \/ InitAggregSubseqLogits
       \/ InitFit
       \/ InitTest

(***************************************************************************)
(* Actions                                                                 *)
(***************************************************************************)
transform ==
    /\ call = "transform" /\ pc = "ready"
    /\ X' = Transform(text)
    /\ note_level_aggregations' =
           IF assign_to_attr THEN Transform(text) ELSE note_level_aggregations
    /\ pc' = "returned"
    /\ UNCHANGED <<fitVars, call, exc, text, assign_to_attr, aggVars, loadVars, encVars, setupVars, hookVars>>

_patient_aggregation ==
    /\ call = "_patient_aggregation" /\ pc = "ready"
    /\ LET r == PatientAggregation(train_patient_ids, note_vectors, labels) IN
        /\ agg' = [X |-> r.X, patient_labels |-> r.patient_labels]
        /\ exc' = r.exc
        /\ pc' = IF r.exc = "none" THEN "returned" ELSE "raised"
    /\ UNCHANGED <<fitVars, call, train_patient_ids, note_vectors, labels, w2vVars, loadVars, encVars, setupVars, hookVars>>

_load_data ==
    /\ call = "_load_data" /\ pc = "ready"
    /\ LET r == LoadData(corpus, readm_file, load_args) IN
        /\ loaded' = [patient_ids |-> r.patient_ids, text |-> r.text,
                      unique_id_list |-> r.unique_id_list, labels |-> r.labels,
                      gridsearch_labels |-> r.gridsearch_labels]
        /\ exc' = r.exc
        /\ pc' = "raised"
    /\ UNCHANGED <<fitVars, call, corpus, readm_file, load_args,
                   w2vVars, aggVars, encVars, setupVars, hookVars>>

\* test(corpus_fp, readm_fp): self.db decides how much of the corpus is read
test ==
    /\ call = "test" /\ pc = "ready"
    /\ LET r == Test(train_patient_ids, corpus, readm_file, load_args.db) IN
        /\ agg' = [X |-> r.X, patient_labels |-> r.patient_labels]
        /\ exc' = r.exc
        /\ pc' = IF r.exc = "none" THEN "returned" ELSE "raised"
    /\ UNCHANGED <<fitVars, call, train_patient_ids, note_vectors, labels, loadVars,
                   w2vVars, encVars, setupVars, hookVars>>

\* EncodedDataset(df, bert_model, txtvar, seq_len)
__init__ ==
    /\ call = "EncodedDataset" /\ pc = "ready"
    /\ LET r == EncodedDatasetInit(df, tokenizer) IN
        /\ exc' = r.exc
        /\ pc' = IF r.exc = "none" THEN "returned" ELSE "raised"
        /\ dataset' = IF r.exc = "none"
                      THEN [input_ids |-> r.input_ids, attn_masks |-> r.attn_masks,
                            labels |-> r.labels, patient_ids |-> r.patient_ids]
                      ELSE dataset
    /\ UNCHANGED <<fitVars, call, df, tokenizer, item, w2vVars, aggVars, loadVars, setupVars, hookVars>>

\* dataset[idx] for an index below len(dataset)
__getitem__ ==
    /\ call = "EncodedDataset" /\ pc = "returned"
    /\ \E idx \in 1..DatasetLen(dataset) : item' = GetItem(dataset, idx)
    /\ UNCHANGED <<fitVars, call, pc, exc, df, tokenizer, dataset, w2vVars, aggVars, loadVars, setupVars, hookVars>>

\* setup(stage), called on its own or as a hook of a fit on a constructed
\* predictor: _dataframe_setup(self.n_train_fp, self.r_train_fp) for 'fit',
\* _dataframe_setup(self.n_test_fp, self.r_test_fp, split=False) for 'test'
setup ==
    /\ \/ call = "setup" /\ pc = "ready"
       \/ call = "fit" /\ pc = "returned" /\ "setup" \notin hooks_run
    /\ hooks_run' = IF call = "fit" THEN hooks_run \cup {"setup"} ELSE hooks_run
    /\ LET labelled_text == Merge(text_df, readm_df)
           all_patients == AllPatients(labelled_text)
           n_val_patients == NValPatients(all_patients, val_frac)
       IN IF stage = "test"
          THEN /\ \E outcome \in BincountOutcomes(labelled_text, labelled_text) :
                  IF outcome # "none"
                  THEN /\ pc' = "raised" /\ exc' = outcome
                       /\ UNCHANGED <<test_df, test_sample_weight>>
                  ELSE /\ pc' = "returned" /\ exc' = "none"
                       /\ test_df' = labelled_text
                       /\ test_sample_weight' = MakeSampleWeights(ReadmOf(labelled_text))
               /\ UNCHANGED <<train_df, val_df, dev_sample_weight>>
          ELSE /\ IF n_val_patients > Len(all_patients)
                  THEN /\ pc' = "raised" /\ exc' = "ValueError"
                       /\ UNCHANGED <<train_df, val_df, dev_sample_weight>>
                  ELSE \E val_patients \in Samples(all_patients, n_val_patients) :
                       LET val == ValDf(labelled_text, val_patients)
                           train == TrainDf(labelled_text, val)
                       IN \E outcome \in BincountOutcomes(labelled_text, val) :
                          IF outcome # "none"
                          THEN /\ pc' = "raised" /\ exc' = outcome
                               /\ UNCHANGED <<train_df, val_df, dev_sample_weight>>
                          ELSE /\ pc' = "returned" /\ exc' = "none"
                               /\ train_df' = train
                               /\ val_df' = val
                               /\ dev_sample_weight' = MakeSampleWeights(ReadmOf(val))
               /\ UNCHANGED <<test_df, test_sample_weight>>
    /\ UNCHANGED <<pl_version, optimiser, call, text_df, readm_df, val_frac, stage,
                   w2vVars, aggVars, loadVars, encVars, hookVars>>

\* MIMICBERTReadmissionPredictor(**kwargs): the version guard is the only
\* check; self.optimiser is stored as given
MIMICBERTReadmissionPredictor ==
    /\ call = "fit" /\ pc = "ready"
    /\ IF ParseVersionLess(pl_version, <<0, 8, 1>>)
       THEN pc' = "raised" /\ exc' = "RuntimeError"
       ELSE pc' = "returned" /\ exc' = "none"
    /\ UNCHANGED <<fitVars, call, w2vVars, aggVars, loadVars, encVars, setupVars, hookVars>>

configure_optimizers ==
    /\ call = "fit" /\ pc = "returned" /\ "configure_optimizers" \notin hooks_run
    /\ hooks_run' = hooks_run \cup {"configure_optimizers"}
    /\ exc' = ConfigureOptimizers(optimiser)
    /\ pc' = IF ConfigureOptimizers(optimiser) = "none" THEN "returned" ELSE "raised"
    /\ UNCHANGED <<pl_version, optimiser, call, w2vVars, aggVars, loadVars, encVars,
                   setupVars, hookVars>>

\* train_dataloader reads self.train_df, which setup('fit') assigns
train_dataloader ==
    /\ call = "fit" /\ pc = "returned"
    /\ "setup" \in hooks_run /\ "train_dataloader" \notin hooks_run
    /\ hooks_run' = hooks_run \cup {"train_dataloader"}
    /\ UNCHANGED <<pl_version, optimiser, call, pc, exc, w2vVars, aggVars, loadVars,
                   encVars, setupVars, hookVars>>

\* training_step takes a batch of the training dataloader; its loss goes to
\* the optimizer configure_optimizers returned
training_step ==
    /\ call = "fit" /\ pc = "returned"
    /\ {"train_dataloader", "configure_optimizers"} \subseteq hooks_run
    /\ "training_step" \notin hooks_run
    /\ hooks_run' = hooks_run \cup {"training_step"}
    /\ UNCHANGED <<pl_version, optimiser, call, pc, exc, w2vVars, aggVars, loadVars,
                   encVars, setupVars, hookVars>>

validation_epoch_end ==
    /\ call = "validation_epoch_end" /\ pc = "ready"
    /\ LET r == ValidationEpochEnd(outputs, write_dev_results_to) IN
        /\ exc' = r.exc
        /\ pc' = IF r.exc = "none" THEN "returned" ELSE "raised"
        /\ epoch_out' = r.out
    /\ UNCHANGED <<fitVars, call, batch_size, batches, outputs, write_dev_results_to, aggregated,
                   w2vVars, aggVars, loadVars, encVars, setupVars>>

test_epoch_end ==
    /\ call = "test_epoch_end" /\ pc = "ready"
    /\ exc' = TestEpochEnd(outputs)
    /\ pc' = "raised"
    /\ UNCHANGED <<fitVars, call, batch_size, batches, outputs, write_dev_results_to, epoch_out,
                   aggregated, w2vVars, aggVars, loadVars, encVars, setupVars>>

_aggreg_subseq_logits ==
    /\ call = "_aggreg_subseq_logits" /\ pc = "ready"
    /\ exc' = AggregSubseqLogits(outputs)
    /\ pc' = "raised"
    /\ UNCHANGED <<fitVars, call, batch_size, batches, outputs, write_dev_results_to, epoch_out,
                   aggregated, w2vVars, aggVars, loadVars, encVars, setupVars>>

Next ==
    \/ transform
    \/ _patient_aggregation
    \/ _load_data
    \/ __init__
    \/ __getitem__
    \/ setup
    \/ validation_epoch_end
    \/ test_epoch_end
    \/ _aggreg_subseq_logits
    \/ MIMICBERTReadmissionPredictor
    \/ configure_optimizers
    \/ train_dataloader
    \/ training_step
    \/ test

Spec == Init /\ [][Next]_vars

(***************************************************************************)
(* Properties                                                              *)
(***************************************************************************)
AggCalled == call = "_patient_aggregation" /\ pc # "ready"

\* the Units the aggregator reads: the rows its zip yields
NumUnits == ZipLen(train_patient_ids, note_vectors, labels)
UnitIds == SubSeq(train_patient_ids, 1, NumUnits)
\* the rows at which patient p occurs, in input order
UnitsOf(p) == {i \in 1..NumUnits : train_patient_ids[i] = p}
\* line 134 of _load_data: the patient order of the loader's label vector
unique_id_list == Dedup(UnitIds)

\* C1: the aggregator emits exactly one row per distinct patient ID of its
\* Units, in first-seen order, so that row i of the patient matrix belongs to
\* the patient of entry i of the loader's patient-level label vector.
C1_OneRowPerPatient ==
    AggCalled =>
        /\ pc = "returned"
        /\ Len(agg.X) = Cardinality(Range(UnitIds))
        /\ Len(agg.X) = Len(unique_id_list)

\* the mean of column k over the rows of patient p, from the input
ColumnMeanOf(p, k) ==
    LET F[i \in 0..NumUnits] ==
            IF i = 0 THEN RInt(0)
            ELSE IF i \in UnitsOf(p) THEN RAdd(F[i - 1], note_vectors[i][k])
            ELSE F[i - 1]
    IN RDivInt(F[NumUnits], Cardinality(UnitsOf(p)))

\* C2: in mean mode a patient with one Unit gets that Unit's vector unchanged,
\* a patient with N > 1 Units gets the elementwise mean of its N vectors, and
\* the aggregate has the width of the Unit vectors, 3 x embeddingDimension.
C2_MeanAggregate ==
    AggCalled =>
        /\ pc = "returned"
        /\ Len(agg.X) = Len(unique_id_list)
        /\ \A i \in 1..Len(unique_id_list) :
            LET p == unique_id_list[i] IN
            /\ Len(agg.X[i]) = 3 * VectorSize
            /\ Cardinality(UnitsOf(p)) = 1 =>
                   \A u \in UnitsOf(p) : agg.X[i] = note_vectors[u]
            /\ \A k \in 1..(3 * VectorSize) : agg.X[i][k] = ColumnMeanOf(p, k)

\* two Units of one patient carry different labels
InconsistentLabels ==
    /\ labels.given
    /\ \E i, j \in 1..NumUnits :
        /\ train_patient_ids[i] = train_patient_ids[j]
        /\ labels.value[i] # labels.value[j]

\* C3: with unit labels the aggregator emits one label per distinct patient,
\* the label of the patient's first-seen Unit, and when two Units of one
\* patient carry different labels it reports an error and returns no labels.
C3_OneLabelPerPatient ==
    (AggCalled /\ labels.given) =>
        IF InconsistentLabels THEN pc = "raised"
        ELSE /\ pc = "returned"
             /\ Len(agg.patient_labels) = Len(unique_id_list)
             /\ \A i \in 1..Len(unique_id_list) :
                    \A u \in UnitsOf(unique_id_list[i]) :
                        agg.patient_labels[i] = labels.value[u]

\* the positions of a note whose token the embedding resolves
Resolved(note) == {j \in 1..Len(note) : note[j] \in Vocab}
CountOf(note, word) == Cardinality({j \in 1..Len(note) : note[j] = word})

\* the mean, max and min of component k over the resolved tokens of a note,
\* from the token counts
ExpectedMean(note, k) ==
    Rat(CountOf(note, "a") * WordVector("a")[k][1]
            + CountOf(note, "b") * WordVector("b")[k][1],
        Cardinality(Resolved(note)))
ExpectedMax(note, k) ==
    CHOOSE v \in {WordVector(note[j])[k] : j \in Resolved(note)} :
        \A j \in Resolved(note) : ~RLess(v, WordVector(note[j])[k])
ExpectedMin(note, k) ==
    CHOOSE v \in {WordVector(note[j])[k] : j \in Resolved(note)} :
        \A j \in Resolved(note) : ~RLess(WordVector(note[j])[k], v)

\* C7: transform returns one row of width 3*dim per note, row i for note i;
\* tokens outside the vocabulary are skipped without error and a note with no
\* resolvable token (an empty note included) gives an all-zero row.
C7_RowAlignment ==
    (call = "transform" /\ pc # "ready") =>
        /\ pc = "returned"
        /\ Len(X) = Len(text)
        /\ \A i \in 1..Len(text) :
            /\ Len(X[i]) = 3 * VectorSize
            /\ Resolved(text[i]) = {} =>
                   \A k \in 1..(3 * VectorSize) : X[i][k] = RInt(0)
            /\ Resolved(text[i]) # {} =>
                   \A k \in 1..VectorSize :
                       /\ X[i][k] = ExpectedMean(text[i], k)
                       /\ X[i][VectorSize + k] = ExpectedMax(text[i], k)
                       /\ X[i][2 * VectorSize + k] = ExpectedMin(text[i], k)

\* C7 witness: transform has returned for a corpus holding an empty note or a
\* note of unknown tokens only, and a note mixing known and unknown tokens
C7_Witness ==
    /\ call = "transform" /\ pc = "returned"
    /\ \E i \in 1..Len(text) : Resolved(text[i]) = {}
    /\ \E i \in 1..Len(text) :
        /\ Resolved(text[i]) # {}
        /\ Resolved(text[i]) # 1..Len(text[i])

EncCalled == call = "EncodedDataset" /\ pc # "ready"

\* the tokens of a Unit that are neither special nor padding
RealTokens(unit) == SelectSeq(unit, LAMBDA t : t > 0)

\* the chunks the contract cuts a note of n tokens into: the first SeqLen
\* tokens, then the rest in contiguous chunks of at most SeqLen
ExpectedChunks(n) ==
    LET count == 1 + (IF n > SeqLen THEN CeilDiv(n - SeqLen, SeqLen) ELSE 0) IN
    [c \in 1..count |-> Tokens(SeqLen * (c - 1) + 1, Min(n, SeqLen * c))]

RECURSIVE ExpectedUnits(_)
ExpectedUnits(rows) ==
    IF rows = <<>> THEN <<>>
    ELSE ExpectedChunks(rows[1].note) \o ExpectedUnits(Tail(rows))

\* C4: a note of n tokens gives one primary Unit holding its first L tokens
\* and, when n > L, exactly ceil((n - L) / L) overflow Units that are the
\* contiguous in-order chunks of the remaining tokens, each of at most L.
C4_OverflowChunks ==
    (EncCalled /\ \A r \in 1..Len(df) : df[r].note > SeqLen) =>
        /\ pc = "returned"
        /\ Len(dataset.input_ids) = Len(ExpectedUnits(df))
        /\ \A i \in 1..Len(dataset.input_ids) :
               RealTokens(dataset.input_ids[i]) = ExpectedUnits(df)[i]

RECURSIVE SumOfMultiples(_)
SumOfMultiples(rows) ==
    IF rows = <<>> THEN 0
    ELSE rows[1].note \div SeqLen + SumOfMultiples(Tail(rows))

\* C5: a note whose token count is an exact multiple m*L gives exactly m
\* Units, no trailing empty Unit, each of length L with an all-ones attention
\* mask, none padded.
C5_ExactMultiple ==
    (/\ EncCalled
     /\ df # <<>>
     /\ \A r \in 1..Len(df) : df[r].note > 0 /\ df[r].note % SeqLen = 0) =>
        /\ pc = "returned"
        /\ Len(dataset.input_ids) = SumOfMultiples(df)
        /\ Len(dataset.attn_masks) = SumOfMultiples(df)
        /\ \A i \in 1..Len(dataset.input_ids) :
            /\ Len(dataset.input_ids[i]) = SeqLen
            /\ PAD \notin Range(dataset.input_ids[i])
            /\ dataset.attn_masks[i] = Ones(SeqLen)

\* the row of df Unit i was cut from: every row opens with its primary Unit,
\* the one that starts with [CLS]
NoteOf(i) == Cardinality({j \in 1..i : dataset.input_ids[j][1] = CLS})

\* C6: once the dataset is built, input_ids, attn_masks, labels and
\* patient_ids have one length, Unit i carries the patient ID and the label of
\* the note it was cut from, and __getitem__ returns the four entries of one
\* index together.
C6_ParallelLists ==
    (call = "EncodedDataset" /\ pc = "returned") =>
        LET n == DatasetLen(dataset) IN
        /\ Len(dataset.input_ids) = n
        /\ Len(dataset.attn_masks) = n
        /\ Len(dataset.labels) = n
        /\ NoteOf(n) = Len(df)
        /\ \A i \in 1..n :
            /\ NoteOf(i) \in 1..Len(df)
            /\ dataset.patient_ids[i] = df[NoteOf(i)].SUBJECT_ID
            /\ dataset.labels[i] = df[NoteOf(i)].READM
        /\ item # NoItem =>
               \E i \in 1..n :
                   /\ item.input_ids = dataset.input_ids[i]
                   /\ item.attn_masks = dataset.attn_masks[i]
                   /\ item.patient_ids = df[NoteOf(i)].SUBJECT_ID
                   /\ item.labels = df[NoteOf(i)].READM

\* C6 witness: a dataset built from notes of two patients with different
\* labels, the first note cut into a primary and an overflow Unit, from which
\* the last Unit has been fetched
C6_Witness ==
    /\ call = "EncodedDataset" /\ pc = "returned"
    /\ Len(df) = 2
    /\ df[1].SUBJECT_ID # df[2].SUBJECT_ID
    /\ df[1].READM # df[2].READM
    /\ df[1].note > SeqLen
    /\ DatasetLen(dataset) > Len(df)
    /\ item = GetItem(dataset, DatasetLen(dataset))

IdsOf(rows) == {rows[j].SUBJECT_ID : j \in 1..Len(rows)}
IndexOf(rows) == {rows[j].idx : j \in 1..Len(rows)}

\* C9: after setup('fit') no patient ID occurs in both the training and the
\* validation table, every loaded row is in exactly one of the two, and the
\* validation table holds the rows of exactly int(numDistinctPatients *
\* val_frac) distinct patients.
C9_PatientSplit ==
    (call = "setup" /\ stage = "fit" /\ pc = "returned") =>
        /\ IdsOf(train_df) \cap IdsOf(val_df) = {}
        /\ IndexOf(train_df) \cap IndexOf(val_df) = {}
        /\ IndexOf(train_df) \cup IndexOf(val_df) = 1..Len(text_df)
        /\ Len(train_df) + Len(val_df) = Len(text_df)
        /\ \A j \in 1..Len(train_df) : train_df[j].SUBJECT_ID = text_df[train_df[j].idx]
        /\ \A j \in 1..Len(val_df) : val_df[j].SUBJECT_ID = text_df[val_df[j].idx]
        /\ Cardinality(IdsOf(val_df))
               = (Cardinality(Range(text_df)) * val_frac[1]) \div val_frac[2]

\* C9 witness: setup('fit') has returned with both tables non-empty and a
\* validation patient that has two notes
C9_Witness ==
    /\ call = "setup" /\ stage = "fit" /\ pc = "returned"
    /\ train_df # <<>>
    /\ \E i, j \in 1..Len(val_df) : i # j /\ val_df[i].SUBJECT_ID = val_df[j].SUBJECT_ID

\* the Units of the epoch in the order the hooks receive them
EpochUnits == Flatten(batches)
EpochPatients == Dedup([u \in 1..Len(EpochUnits) |-> EpochUnits[u].patient])

\* the scores of patient p in class column j, in Unit order
ScoresOf(p, j) ==
    LET F[u \in 0..Len(EpochUnits)] ==
            IF u = 0 THEN <<>>
            ELSE IF EpochUnits[u].patient = p
                 THEN Append(F[u - 1], RInt(EpochUnits[u].logits[j]))
                 ELSE F[u - 1]
    IN F[Len(EpochUnits)]

\* C8: in probability-blend mode the output has one row per distinct patient
\* and one column per class, the score of a patient with N Units being
\* (max(v) + mean(v) * k) / (1 + k) with k = N / scaleFactor over its N
\* per-Unit scores, which for N = 1 is the Unit's own score.
C8_ProbabilityBlend ==
    (call = "_aggreg_subseq_logits" /\ pc # "ready") =>
        /\ pc = "returned"
        /\ Len(aggregated.logits) = Len(EpochPatients)
        /\ \A i \in 1..Len(EpochPatients) :
            /\ Len(aggregated.logits[i]) = NumClasses
            /\ \A j \in 1..NumClasses :
                LET v == ScoresOf(EpochPatients[i], j) IN
                /\ aggregated.logits[i][j] = Scale(v)
                /\ Len(v) = 1 => aggregated.logits[i][j] = v[1]

\* the labels of the epoch are all of one class
AllOneClass ==
    LET labs == [u \in 1..Len(EpochUnits) |-> EpochUnits[u].label] IN
    Sum(labs) = Len(labs) \/ Sum(labs) = 0

\* C10: when the labels of a validation epoch are all of one class,
\* validation_epoch_end skips the metrics and returns without raising.
C10_DegenerateEpochSkipped ==
    (/\ call = "validation_epoch_end" /\ pc # "ready"
     /\ batches # <<>> /\ AllOneClass) =>
        /\ pc = "returned"
        /\ epoch_out = NoOut

\* the hooks that load data or schedule a batch
WorkHooks == {"setup", "train_dataloader", "training_step"}

\* C11: an optimiser name other than 'sgd' and 'adam' makes the predictor fail
\* at construction or configure time: with such a name construction or
\* configure_optimizers raises before setup, a dataloader or a training step
\* is entered.
C11_InvalidOptimiserFailsFast ==
    (call = "fit" /\ optimiser \notin {"sgd", "adam"}) =>
        hooks_run \cap WorkHooks = {}

\* the patients that have a row in the label table the loader read
LabelTablePatients == {readm_file[j].SUBJECT_ID : j \in 1..Len(readm_file)}
\* the label table gives patient p the label l
InLabelTable(p, l) ==
    \E j \in 1..Len(readm_file) :
        readm_file[j].SUBJECT_ID = p /\ readm_file[j].READM = l

\* what _load_data holds when it ends names labelled patients only, with
\* labels of the label table
LoaderKeepsLabelled ==
    /\ Len(loaded.text) = Len(loaded.patient_ids)
    /\ \A i \in 1..Len(loaded.patient_ids) :
           loaded.patient_ids[i] \in LabelTablePatients
    /\ Len(loaded.labels) = Len(loaded.unique_id_list)
    /\ \A i \in 1..Len(loaded.labels) :
           InLabelTable(loaded.unique_id_list[i], loaded.labels[i])
    /\ load_args.adapt_for_gridsearch =>
           /\ Len(loaded.gridsearch_labels) = Len(loaded.patient_ids)
           /\ \A i \in 1..Len(loaded.patient_ids) :
                  InLabelTable(loaded.patient_ids[i], loaded.gridsearch_labels[i])

\* every row of a table setup assigned has the label of its patient's row in
\* the label table
SetupKeepsLabelled ==
    \A rows \in {train_df, val_df, test_df} :
        \A j \in 1..Len(rows) :
            /\ rows[j].READM # NaN
            /\ rows[j].READM = readm_df[rows[j].SUBJECT_ID]

\* C12: a patient of the corpus without a row in the label table is in
\* nothing the word2vec loader or the transformer setup passes on: every note
\* and patient the loader keeps, and every row of the tables setup assigns,
\* has a label taken from the label table, never a missing or made-up one.
C12_NoUnlabelledUnit ==
    /\ (call = "_load_data" /\ pc # "ready") => LoaderKeepsLabelled
    /\ SetupKeepsLabelled

\* C12 witness: the loader has read a corpus that holds a note of a patient
\* without a label row next to notes it kept
C12_Witness ==
    /\ call = "_load_data" /\ pc = "raised" /\ ~load_args.db
    /\ loaded.patient_ids # <<>>
    /\ \E i \in 1..Len(corpus) : corpus[i].SUBJECT_ID \notin LabelTablePatients

\* the Units of the aggregator's input taken in the order pi
PermutedIds(pi) == [i \in 1..NumUnits |-> train_patient_ids[pi[i]]]
PermutedVectors(pi) == [i \in 1..NumUnits |-> note_vectors[pi[i]]]
PermutedLabels(pi) ==
    IF labels.given THEN Some([i \in 1..NumUnits |-> labels.value[pi[i]]]) ELSE None
\* what the aggregator gives for the Units in the order pi
PermutedAggregation(pi) ==
    PatientAggregation(PermutedIds(pi), PermutedVectors(pi), PermutedLabels(pi))

\* C13: for two Unit sequences that are permutations of each other the
\* aggregator's outputs hold the same aggregate vector for each patient, each
\* output with its rows in the first-seen patient order of its own input.
C13_PermutationInvariant ==
    AggCalled =>
        /\ pc = "returned"
        /\ Len(agg.X) = Len(unique_id_list)
        /\ \A pi \in Permutations(1..NumUnits) :
            LET r == PermutedAggregation(pi)
                order == Dedup(PermutedIds(pi))
            IN /\ r.exc = "none"
               /\ Len(r.X) = Len(order)
               /\ \A i \in 1..Len(order) :
                      r.X[i] = agg.X[IndexIn(unique_id_list, order[i])]

\* the patient IDs of the test corpus as _load_test_data reads them: one per
\* note of a labelled patient
TestPatientIds ==
    LET read == LabelledRows(RowsRead(corpus, TestChunkSize, load_args.db), readm_file)
    IN [i \in 1..Len(read) |-> read[i].SUBJECT_ID]

\* C14: the patient aggregation inside test() depends on the test corpus
\* only: the test note vectors are grouped by the patient IDs of the test
\* corpus, so that test() gets one patient row and one label per distinct
\* test patient, whatever patient IDs the training call left behind.
C14_TestAggregatesTestCorpus ==
    (/\ call = "test" /\ pc # "ready"
     /\ TestPatientIds # <<>> /\ train_patient_ids # <<>>) =>
        /\ pc = "returned"
        /\ Len(agg.X) = Cardinality(Range(TestPatientIds))
        /\ Len(agg.patient_labels) = Len(agg.X)

====
